---- MODULE Spec2Model ----
(***************************************************************************)
(* Shuttle Forge: the App shell (App.tsx), the customer request form       *)
(* (ShuttleRequest.tsx, the "Composer") and the owner dashboard            *)
(* (OwnerDashboard.tsx, the "Console"), the connectivity probe of the      *)
(* mounted view (hooks/useSupabase.ts) and the emergency contacts form of  *)
(* OwnerPortal.tsx with the browser's localStorage.                        *)
(*                                                                         *)
(* Every React event handler is one atomic action: React applies the       *)
(* state updates a handler queues before the next event is dispatched.     *)
(* A component's useState values exist only while it is mounted; while a   *)
(* view is unmounted its variables hold the values the next mount starts   *)
(* from.                                                                   *)
(***************************************************************************)
EXTENDS Integers, Sequences, FiniteSets, TLC

VARIABLES
    currentView,      \* App: 'customer' | 'owner'
    requests,         \* Console: ShuttleRequest[]
    selectedRequest,  \* Console: ShuttleRequest | null, as <<>> or <<r>>
    loading,          \* Console: boolean
    filter,           \* Console: 'all' | 'pending' | 'active' | 'completed'
    timerPending,     \* Console: the mount-time setTimeout has not fired yet
    vehicleCount,     \* Composer: number
    vehicles,         \* Composer: VehicleRequest[]
    thrown,           \* the last event handler ended with an exception
    parkingLocation,  \* Composer: GeoPoint
    dropoffLocation,  \* Composer: GeoPoint
    dropoffDay,       \* Composer: string
    arrivalTime,      \* Composer: string
    isConnected,      \* useSupabase: boolean | null, as <<>> or <<b>>
    error,            \* useSupabase: string | null, as <<>> or <<msg>>
    probePending,     \* useSupabase: testConnection awaits getUser()
    probes,           \* useSupabase: getUser() calls made by this mount
    emergencyContacts,\* OwnerPortal: EmergencyContacts
    localStorage,     \* the browser's localStorage: key -> stored text
    tripData,         \* OwnerPortal: TripData
    timeZone,         \* the host's offset from UTC in hours (local - UTC)
    lastLog           \* the message of the last console.log / console.error

appVars      == <<currentView>>
consoleVars  == <<requests, selectedRequest, loading, filter, timerPending>>
formVars     == <<parkingLocation, dropoffLocation, dropoffDay, arrivalTime>>
composerVars == <<vehicleCount, vehicles, formVars>>
hookVars     == <<isConnected, error, probePending, probes>>
tripVars     == <<tripData, timeZone>>
portalVars   == <<emergencyContacts, localStorage, tripVars>>
vars == <<currentView, requests, selectedRequest, loading, filter,
          timerPending, vehicleCount, vehicles, thrown, parkingLocation,
          dropoffLocation, dropoffDay, arrivalTime, isConnected, error,
          probePending, probes, emergencyContacts, localStorage, tripData,
          timeZone, lastLog>>

(***************************************************************************)
(* Bounds of the model.                                                    *)
(***************************************************************************)
\* how far below 1 and above 10 the typed vehicle counts range
CountSlack == 2
\* vehicles 1..MaxEditId receive field edits
MaxEditId == 2

(***************************************************************************)
(* Arithmetic helpers (Math.max, Math.min).                                *)
(***************************************************************************)
Max(a, b) == IF a >= b THEN a ELSE b
Min(a, b) == IF a <= b THEN a ELSE b

(***************************************************************************)
(* Console: OwnerDashboard.tsx                                             *)
(***************************************************************************)
Statuses == {"pending", "active", "completed"}
FilterKeys == {"all", "pending", "active", "completed"}

null == <<>>

mockRequests ==
    << [ id |-> "1",
         customerName |-> "John Smith",
         customerPhone |-> "+1 (555) 123-4567",
         customerEmail |-> "john@example.com",
         parkingLocation |-> [name |-> "Downtown Parking Garage",
                              lat |-> "40.7128", lng |-> "-74.0060"],
         dropoffLocation |-> [name |-> "Mountain Resort",
                              lat |-> "40.7589", lng |-> "-73.9851"],
         vehicleCount |-> 1,
         vehicles |-> << [make |-> "Toyota", model |-> "4Runner",
                          year |-> "2020", transmission |-> "auto"] >>,
         dropoffDay |-> "2024-01-15",
         arrivalTime |-> "08:00",
         status |-> "pending",
         createdAt |-> "2024-01-10T10:30:00Z",
         notes |-> "Customer prefers early morning pickup" ],
       [ id |-> "2",
         customerName |-> "Sarah Johnson",
         customerPhone |-> "+1 (555) 987-6543",
         customerEmail |-> "sarah@example.com",
         parkingLocation |-> [name |-> "Airport Terminal A",
                              lat |-> "40.6892", lng |-> "-74.1745"],
         dropoffLocation |-> [name |-> "River Access Point",
                              lat |-> "40.7505", lng |-> "-73.9934"],
         vehicleCount |-> 2,
         vehicles |-> << [make |-> "Ford", model |-> "F-150",
                          year |-> "2022", transmission |-> "auto"],
                         [make |-> "Chevrolet", model |-> "Silverado",
                          year |-> "2021", transmission |-> "manual"] >>,
         dropoffDay |-> "2024-01-18",
         arrivalTime |-> "09:30",
         status |-> "active",
         createdAt |-> "2024-01-09T14:20:00Z",
         notes |-> "Group of 4 people, need extra space" ],
       [ id |-> "3",
         customerName |-> "Mike Wilson",
         customerPhone |-> "+1 (555) 456-7890",
         customerEmail |-> "mike@example.com",
         parkingLocation |-> [name |-> "Hotel Plaza",
                              lat |-> "40.7614", lng |-> "-73.9776"],
         dropoffLocation |-> [name |-> "Canyon Viewpoint",
                              lat |-> "40.7505", lng |-> "-73.9934"],
         vehicleCount |-> 1,
         vehicles |-> << [make |-> "Honda", model |-> "CR-V",
                          year |-> "2019", transmission |-> "auto"] >>,
         dropoffDay |-> "2024-01-12",
         arrivalTime |-> "07:00",
         status |-> "completed",
         createdAt |-> "2024-01-08T16:45:00Z",
         notes |-> "Successfully completed shuttle service" ] >>

\* the predicate without its `filter === 'all' ||` disjunct
RECURSIVE filterRequests_NoAll(_, _)
filterRequests_NoAll(reqs, key) ==
    IF reqs = <<>> THEN <<>>
    ELSE IF Head(reqs).status = key
         THEN <<Head(reqs)>> \o filterRequests_NoAll(Tail(reqs), key)
         ELSE filterRequests_NoAll(Tail(reqs), key)

\* filterRequests with unshift in place of push: the passing elements come
\* out in reverse order
RECURSIVE filterRequests_Reversed(_, _)
filterRequests_Reversed(reqs, key) ==
    IF reqs = <<>> THEN <<>>
    ELSE IF key = "all" \/ Head(reqs).status = key
         THEN filterRequests_Reversed(Tail(reqs), key) \o <<Head(reqs)>>
         ELSE filterRequests_Reversed(Tail(reqs), key)

\* Array.prototype.filter with the predicate of filteredRequests:
\* walks the array front to back and appends every element that passes.
RECURSIVE filterRequests(_, _)
filterRequests(reqs, key) ==
    IF reqs = <<>> THEN <<>>
    ELSE IF key = "all" \/ Head(reqs).status = key
         THEN <<Head(reqs)>> \o filterRequests(Tail(reqs), key)
         ELSE filterRequests(Tail(reqs), key)

\* const filteredRequests = requests.filter(...), recomputed on every render
filteredRequests == filterRequests(requests, filter)

\* requests.filter(r => r.status === s).length, as the stats cards compute it
RECURSIVE countStatus(_, _)
countStatus(reqs, s) ==
    IF reqs = <<>> THEN 0
    ELSE (IF Head(reqs).status = s THEN 1 ELSE 0) + countStatus(Tail(reqs), s)

\* the three stats cards
StatsCount(s) == countStatus(requests, s)

\* tab counts taken from the filtered list instead of the collection
TabCount_Filtered(key) ==
    IF key = "all" THEN Len(filteredRequests)
    ELSE countStatus(filteredRequests, key)

\* the count shown in the filter tab with the given key
TabCount(key) ==
    IF key = "all" THEN Len(requests) ELSE countStatus(requests, key)

\* the map without its id test: every request receives the status
mapStatus_AllRequests(prev, requestId, status) ==
    [i \in DOMAIN prev |-> [prev[i] EXCEPT !.status = status]]

\* prev.map(req => req.id === requestId ? { ...req, status } : req)
mapStatus(prev, requestId, status) ==
    [i \in DOMAIN prev |->
        IF prev[i].id = requestId
        THEN [prev[i] EXCEPT !.status = status]
        ELSE prev[i]]

\* a render without the `if (loading) return ...` early return
ConsoleShown_IgnoresLoading == currentView = "owner"

\* the part of the render after the `if (loading) return ...` early return
ConsoleShown == currentView = "owner" /\ ~loading

\* the detail modal is rendered: {selectedRequest && (...)}
DetailShown == ConsoleShown /\ selectedRequest # null

\* the Accept button rendered without its status test
AcceptButtonShown_AnyStatus == DetailShown

\* {selectedRequest.status === 'pending' && <button>Accept Request</button>}
AcceptButtonShown == DetailShown /\ selectedRequest[1].status = "pending"

\* {selectedRequest.status === 'active' && <button>Mark as Completed</button>}
CompleteButtonShown == DetailShown /\ selectedRequest[1].status = "active"

\* the handler without its setSelectedRequest(null)
handleAcceptRequest_KeepsSelection(requestId) ==
    /\ requests' = mapStatus(requests, requestId, "active")
    /\ thrown' = FALSE
    /\ UNCHANGED <<hookVars, portalVars, lastLog>>
    /\ UNCHANGED <<currentView, selectedRequest, loading, filter,
                   timerPending, composerVars>>

handleAcceptRequest(requestId) ==
    /\ requests' = mapStatus(requests, requestId, "active")
    /\ selectedRequest' = null
    /\ thrown' = FALSE
    /\ UNCHANGED <<hookVars, portalVars, lastLog>>
    /\ UNCHANGED <<currentView, loading, filter, timerPending, composerVars>>

\* the handler without its setSelectedRequest(null)
handleCompleteRequest_KeepsSelection(requestId) ==
    /\ requests' = mapStatus(requests, requestId, "completed")
    /\ thrown' = FALSE
    /\ UNCHANGED <<hookVars, portalVars, lastLog>>
    /\ UNCHANGED <<currentView, selectedRequest, loading, filter,
                   timerPending, composerVars>>

handleCompleteRequest(requestId) ==
    /\ requests' = mapStatus(requests, requestId, "completed")
    /\ selectedRequest' = null
    /\ thrown' = FALSE
    /\ UNCHANGED <<hookVars, portalVars, lastLog>>
    /\ UNCHANGED <<currentView, loading, filter, timerPending, composerVars>>

\* the setTimeout callback of the mount effect
MockLoadTimer ==
    /\ currentView = "owner"
    /\ timerPending
    /\ requests' = mockRequests
    /\ loading' = FALSE
    /\ timerPending' = FALSE
    /\ thrown' = FALSE
    /\ UNCHANGED <<hookVars, portalVars, lastLog>>
    /\ UNCHANGED <<currentView, selectedRequest, filter, composerVars>>

\* a row click that also goes back to the "all" tab
SelectRequest_ResetsFilter ==
    /\ ConsoleShown
    /\ \E i \in DOMAIN filteredRequests :
          selectedRequest' = <<filteredRequests[i]>>
    /\ filter' = "all"
    /\ thrown' = FALSE
    /\ UNCHANGED <<hookVars, portalVars, lastLog>>
    /\ UNCHANGED <<currentView, requests, loading, timerPending, composerVars>>

\* a click on a row of the list: onClick={() => setSelectedRequest(request)}
SelectRequest ==
    /\ ConsoleShown
    /\ \E i \in DOMAIN filteredRequests :
          selectedRequest' = <<filteredRequests[i]>>
    /\ thrown' = FALSE
    /\ UNCHANGED <<hookVars, portalVars, lastLog>>
    /\ UNCHANGED <<currentView, requests, loading, filter, timerPending,
                   composerVars>>

\* the close button of the modal: onClick={() => setSelectedRequest(null)}
CloseDetail ==
    /\ DetailShown
    /\ selectedRequest' = null
    /\ thrown' = FALSE
    /\ UNCHANGED <<hookVars, portalVars, lastLog>>
    /\ UNCHANGED <<currentView, requests, loading, filter, timerPending,
                   composerVars>>

\* a filter tab that also closes the detail view
SetFilter_ClearsSelection ==
    /\ ConsoleShown
    /\ \E key \in FilterKeys : filter' = key
    /\ selectedRequest' = null
    /\ thrown' = FALSE
    /\ UNCHANGED <<hookVars, portalVars, lastLog>>
    /\ UNCHANGED <<currentView, requests, loading, timerPending, composerVars>>

\* a click on a filter tab: onClick={() => setFilter(tab.key)}
SetFilter ==
    /\ ConsoleShown
    /\ \E key \in FilterKeys : filter' = key
    /\ thrown' = FALSE
    /\ UNCHANGED <<hookVars, portalVars, lastLog>>
    /\ UNCHANGED <<currentView, requests, selectedRequest, loading,
                   timerPending, composerVars>>

\* onClick={() => handleAcceptRequest(selectedRequest.id)}
AcceptClick ==
    /\ AcceptButtonShown
    /\ handleAcceptRequest(selectedRequest[1].id)

\* onClick={() => handleCompleteRequest(selectedRequest.id)}
CompleteClick ==
    /\ CompleteButtonShown
    /\ handleCompleteRequest(selectedRequest[1].id)

(***************************************************************************)
(* Composer: ShuttleRequest.tsx                                            *)
(***************************************************************************)
MinVehicles == 1
MaxVehicles == 10

SAMPLE_MAKES_TO_MODELS ==
    [ Toyota    |-> <<"4Runner", "Tacoma", "RAV4", "Camry">>,
      Ford      |-> <<"F-150", "Explorer", "Bronco", "Escape">>,
      Subaru    |-> <<"Outback", "Forester", "Crosstrek", "Ascent">>,
      Chevrolet |-> <<"Silverado", "Tahoe", "Equinox", "Trailblazer">> ]

\* SAMPLE_MAKES_TO_MODELS[make] || []
modelsOf(make) ==
    IF make \in DOMAIN SAMPLE_MAKES_TO_MODELS
    THEN SAMPLE_MAKES_TO_MODELS[make] ELSE <<>>

\* nextMake ? (SAMPLE_MAKES_TO_MODELS[nextMake]?.[0] || '') : ''
firstModel(nextMake) ==
    IF nextMake # "" /\ Len(modelsOf(nextMake)) > 0
    THEN modelsOf(nextMake)[1] ELSE ""

\* { id, transmission: 'automatic', make: '', model: '', year: '' }
newVehicle(id) ==
    [id |-> id, transmission |-> "automatic", make |-> "", model |-> "",
     year |-> ""]

\* the values typed or chosen in the form
CountInputs == (0 - CountSlack) .. (MaxVehicles + CountSlack)
TransmissionInputs == {"automatic", "manual"}
MakeInputs == {"", "Toyota", "Ford"}
ModelInputs == {"Tacoma"}
YearInputs == {"", "2025"}

\* the clamp without its lower bound: Math.min(10, count)
safeCount_NoFloor(count) == Min(MaxVehicles, count)

\* Math.max(1, Math.min(10, count))
safeCount(count) == Max(MinVehicles, Min(MaxVehicles, count))

\* the loop pushing { id: safeCount, ... }: every new vehicle gets the count
RECURSIVE pushVehicles_IdIsCount(_, _)
pushVehicles_IdIsCount(next, safe) ==
    IF Len(next) < safe
    THEN pushVehicles_IdIsCount(Append(next, newVehicle(safe)), safe)
    ELSE next

\* the loop pushing { id: i, ... } instead of { id: i + 1, ... }
RECURSIVE pushVehicles_IdFromLength(_, _)
pushVehicles_IdFromLength(next, safe) ==
    IF Len(next) < safe
    THEN pushVehicles_IdFromLength(Append(next, newVehicle(Len(next))), safe)
    ELSE next

\* for (let i = next.length; i < safeCount; i += 1) next.push({ id: i + 1, ... })
RECURSIVE pushVehicles(_, _)
pushVehicles(next, safe) ==
    IF Len(next) < safe
    THEN pushVehicles(Append(next, newVehicle(Len(next) + 1)), safe)
    ELSE next

\* `next.length = n` raises a RangeError when n is not a valid array length
lengthAssignThrows(n) == n < 0

\* the updater without its truncating branch
resizeVehicles_NoTruncate(prev, safe) ==
    IF safe > Len(prev) THEN pushVehicles(prev, safe) ELSE prev

\* the updater keeping the last vehicles instead of the first when it shrinks
resizeVehicles_KeepsTail(prev, safe) ==
    IF safe > Len(prev) THEN pushVehicles(prev, safe)
    ELSE IF safe < Len(prev)
         THEN (IF lengthAssignThrows(safe) THEN prev
               ELSE SubSeq(prev, Len(prev) - safe + 1, Len(prev)))
         ELSE prev

\* the updater passed to setVehicles in handleVehicleCountChange
resizeVehicles(prev, safe) ==
    IF safe > Len(prev) THEN pushVehicles(prev, safe)
    ELSE IF safe < Len(prev)
         THEN (IF lengthAssignThrows(safe) THEN prev
               ELSE SubSeq(prev, 1, safe))
         ELSE prev

resizeThrows(prev, safe) == safe < Len(prev) /\ lengthAssignThrows(safe)

\* prev.map(v => v.id === id ? { ...v, transmission } : v)
setVehicleTransmission(prev, id, transmission) ==
    [i \in DOMAIN prev |->
        IF prev[i].id = id
        THEN [prev[i] EXCEPT !.transmission = transmission]
        ELSE prev[i]]

\* the map without its id test: every vehicle receives the value
setVehicleField_AllRows(prev, id, field, value) ==
    [i \in DOMAIN prev |-> [prev[i] EXCEPT ![field] = value]]

\* prev.map(v => v.id === id ? { ...v, [field]: value } : v)
setVehicleField(prev, id, field, value) ==
    [i \in DOMAIN prev |->
        IF prev[i].id = id
        THEN [prev[i] EXCEPT ![field] = value]
        ELSE prev[i]]

\* a form rendered only once the connection is established
ComposerShown_WhenConnected ==
    currentView = "customer" /\ isConnected = <<TRUE>>

ComposerShown == currentView = "customer"

\* the ids of the vehicle cards rendered by vehicles.map((v) => ...)
ShownVehicleIds == {vehicles[i].id : i \in DOMAIN vehicles}
EditIds == {id \in ShownVehicleIds : id <= MaxEditId}

handleVehicleCountChange(count) ==
    /\ vehicleCount' = safeCount(count)
    /\ vehicles' = resizeVehicles(vehicles, safeCount(count))
    /\ thrown' = resizeThrows(vehicles, safeCount(count))
    /\ UNCHANGED <<hookVars, portalVars, lastLog>>
    /\ UNCHANGED <<appVars, consoleVars, formVars>>

\* the number input: onChange -> handleVehicleCountChange(parseInt(value || '1', 10))
VehicleCountInput ==
    /\ ComposerShown
    /\ \E count \in CountInputs : handleVehicleCountChange(count)

\* the Automatic / Manual buttons of a vehicle card
TransmissionClick ==
    /\ ComposerShown
    /\ \E id \in EditIds, t \in TransmissionInputs :
          vehicles' = setVehicleTransmission(vehicles, id, t)
    /\ thrown' = FALSE
    /\ UNCHANGED <<hookVars, portalVars, lastLog>>
    /\ UNCHANGED <<appVars, consoleVars, vehicleCount, formVars>>

\* a make select that leaves the model as it is
MakeChange_KeepsModel ==
    /\ ComposerShown
    /\ \E id \in EditIds, nextMake \in MakeInputs :
          vehicles' = setVehicleField(vehicles, id, "make", nextMake)
    /\ thrown' = FALSE
    /\ UNCHANGED <<hookVars, portalVars, lastLog>>
    /\ UNCHANGED <<appVars, consoleVars, vehicleCount, formVars>>

\* the make select: setVehicleField(id,'make',m); setVehicleField(id,'model',first)
MakeChange ==
    /\ ComposerShown
    /\ \E id \in EditIds, nextMake \in MakeInputs :
          vehicles' = setVehicleField(
                          setVehicleField(vehicles, id, "make", nextMake),
                          id, "model", firstModel(nextMake))
    /\ thrown' = FALSE
    /\ UNCHANGED <<hookVars, portalVars, lastLog>>
    /\ UNCHANGED <<appVars, consoleVars, vehicleCount, formVars>>

\* the options of the model select of vehicle v; the select is disabled
\* while v.make is empty
ModelOptions(v) ==
    IF v.make = "" THEN {}
    ELSE {""} \cup {modelsOf(v.make)[k] : k \in DOMAIN modelsOf(v.make)}

ModelChange ==
    /\ ComposerShown
    /\ \E i \in DOMAIN vehicles :
          /\ vehicles[i].id \in EditIds
          /\ \E m \in ModelOptions(vehicles[i]) \cap ModelInputs :
                vehicles' = setVehicleField(vehicles, vehicles[i].id,
                                            "model", m)
    /\ thrown' = FALSE
    /\ UNCHANGED <<hookVars, portalVars, lastLog>>
    /\ UNCHANGED <<appVars, consoleVars, vehicleCount, formVars>>

YearChange ==
    /\ ComposerShown
    /\ \E id \in EditIds, yr \in YearInputs :
          vehicles' = setVehicleField(vehicles, id, "year", yr)
    /\ thrown' = FALSE
    /\ UNCHANGED <<hookVars, portalVars, lastLog>>
    /\ UNCHANGED <<appVars, consoleVars, vehicleCount, formVars>>

\* initial GeoPoint: { name: '' }; lat and lng are absent (<<>>) until picked
newGeoPoint == [name |-> "", lat |-> <<>>, lng |-> <<>>]

\* the values typed into the location, date and time inputs and the points
\* clicked on the maps
LocationNameInputs == {"", "Boat ramp"}
LatLngInputs == {<<39, -98>>}
DayInputs == {"", "2024-01-15"}
TimeInputs == {"", "08:00"}

\* the object built without the spread: { name: e.target.value }
setLocationName_NoSpread(location, name) ==
    [name |-> name, lat |-> <<>>, lng |-> <<>>]

\* { ...location, name: e.target.value }
setLocationName(location, name) == [location EXCEPT !.name = name]

\* { ...location, lat, lng }
setLocationLatLng(location, lat, lng) ==
    [location EXCEPT !.lat = <<lat>>, !.lng = <<lng>>]

\* the parking name input: onChange
ParkingNameInput ==
    /\ ComposerShown
    /\ \E name \in LocationNameInputs :
          parkingLocation' = setLocationName(parkingLocation, name)
    /\ thrown' = FALSE
    /\ UNCHANGED <<appVars, consoleVars, vehicleCount, vehicles,
                   dropoffLocation, dropoffDay, arrivalTime>>
    /\ UNCHANGED <<hookVars, portalVars, lastLog>>

\* a click on the parking map: ClickToSetMarker onPick
ParkingMapPick ==
    /\ ComposerShown
    /\ \E p \in LatLngInputs :
          parkingLocation' = setLocationLatLng(parkingLocation, p[1], p[2])
    /\ thrown' = FALSE
    /\ UNCHANGED <<appVars, consoleVars, vehicleCount, vehicles,
                   dropoffLocation, dropoffDay, arrivalTime>>
    /\ UNCHANGED <<hookVars, portalVars, lastLog>>

\* the drop-off name input: onChange
DropoffNameInput ==
    /\ ComposerShown
    /\ \E name \in LocationNameInputs :
          dropoffLocation' = setLocationName(dropoffLocation, name)
    /\ thrown' = FALSE
    /\ UNCHANGED <<appVars, consoleVars, vehicleCount, vehicles,
                   parkingLocation, dropoffDay, arrivalTime>>
    /\ UNCHANGED <<hookVars, portalVars, lastLog>>

\* a click on the drop-off map: ClickToSetMarker onPick
DropoffMapPick ==
    /\ ComposerShown
    /\ \E p \in LatLngInputs :
          dropoffLocation' = setLocationLatLng(dropoffLocation, p[1], p[2])
    /\ thrown' = FALSE
    /\ UNCHANGED <<appVars, consoleVars, vehicleCount, vehicles,
                   parkingLocation, dropoffDay, arrivalTime>>
    /\ UNCHANGED <<hookVars, portalVars, lastLog>>

\* the date input: onChange={(e) => setDropoffDay(e.target.value)}
DropoffDayInput ==
    /\ ComposerShown
    /\ \E day \in DayInputs : dropoffDay' = day
    /\ thrown' = FALSE
    /\ UNCHANGED <<appVars, consoleVars, vehicleCount, vehicles,
                   parkingLocation, dropoffLocation, arrivalTime>>
    /\ UNCHANGED <<hookVars, portalVars, lastLog>>

\* the time input: onChange={(e) => setArrivalTime(e.target.value)}
ArrivalTimeInput ==
    /\ ComposerShown
    /\ \E time \in TimeInputs : arrivalTime' = time
    /\ thrown' = FALSE
    /\ UNCHANGED <<appVars, consoleVars, vehicleCount, vehicles,
                   parkingLocation, dropoffLocation, dropoffDay>>
    /\ UNCHANGED <<hookVars, portalVars, lastLog>>

\* a submit button that refuses a form with an empty field
SubmitClick_Validates ==
    /\ ComposerShown
    /\ parkingLocation.name # "" /\ dropoffLocation.name # ""
    /\ dropoffDay # "" /\ arrivalTime # ""
    /\ \A i \in DOMAIN vehicles : vehicles[i].make # ""
    /\ lastLog' = "Submit shuttle request"
    /\ thrown' = FALSE
    /\ UNCHANGED <<appVars, consoleVars, composerVars, hookVars, portalVars>>

\* the "Request Shuttle" button: console.log('Submit shuttle request', ...)
SubmitClick ==
    /\ ComposerShown
    /\ lastLog' = "Submit shuttle request"
    /\ thrown' = FALSE
    /\ UNCHANGED <<appVars, consoleVars, composerVars, hookVars, portalVars>>

\* the "Save Draft" button: console.log('Save draft', ...)
SaveDraftClick ==
    /\ ComposerShown
    /\ lastLog' = "Save draft"
    /\ thrown' = FALSE
    /\ UNCHANGED <<appVars, consoleVars, composerVars, hookVars, portalVars>>

(***************************************************************************)
(* The connectivity probe: hooks/useSupabase.ts.  Both views call the      *)
(* hook, so the mounted view owns one instance of its state.               *)
(***************************************************************************)
\* useState initial values of useSupabase
HookInitial == [isConnected |-> null, error |-> null]

\* what `await supabase.auth.getUser()` can give: a resolved { error } with
\* error null (<<>>) or an error object, or a rejection with a thrown value;
\* isError tells whether the object is an instance of Error
GetUserOutcomes ==
    { [kind |-> "resolved", err |-> <<>>],
      [kind |-> "resolved",
       err |-> <<[message |-> "Auth session missing!", isError |-> TRUE]>>],
      [kind |-> "resolved",
       err |-> <<[message |-> "Invalid API key", isError |-> TRUE]>>],
      [kind |-> "resolved",
       err |-> <<[message |-> "Invalid API key", isError |-> FALSE]>>],
      [kind |-> "rejected",
       err |-> <<[message |-> "Failed to fetch", isError |-> TRUE]>>],
      [kind |-> "rejected",
       err |-> <<[message |-> "Auth session missing!", isError |-> TRUE]>>] }

\* a mock client whose getUser can also reject
MockGetUserOutcomes_Rejects ==
    { [kind |-> "resolved", err |-> <<>>],
      [kind |-> "rejected",
       err |-> <<[message |-> "Failed to fetch", isError |-> TRUE]>>] }

\* the client shipped in lib/supabase.ts:
\* getUser: () => Promise.resolve({ data: null, error: null })
MockGetUserOutcomes == { [kind |-> "resolved", err |-> <<>>] }

\* the try block throwing every returned error, 'Auth session missing!' too
caughtBy_EveryError(outcome) ==
    IF outcome.kind = "rejected" THEN outcome.err
    ELSE IF outcome.err # <<>> THEN outcome.err ELSE <<>>

\* the value caught by the catch block of testConnection, <<>> when the try
\* block completes
caughtBy(outcome) ==
    IF outcome.kind = "rejected" THEN outcome.err
    ELSE IF outcome.err # <<>>
            /\ outcome.err[1].message # "Auth session missing!"
         THEN outcome.err
         ELSE <<>>

\* the state testConnection leaves behind for an outcome of getUser()
testConnection(outcome) ==
    IF caughtBy(outcome) = <<>>
    THEN [isConnected |-> <<TRUE>>, error |-> null]
    ELSE [isConnected |-> <<FALSE>>,
          error |-> << IF caughtBy(outcome)[1].isError
                       THEN caughtBy(outcome)[1].message
                       ELSE "Connection failed" >>]

\* a continuation that calls testConnection again after a failure
ProbeSettle_Retries ==
    /\ probePending
    /\ \E outcome \in GetUserOutcomes :
          /\ isConnected' = testConnection(outcome).isConnected
          /\ error' = testConnection(outcome).error
          /\ lastLog' = IF caughtBy(outcome) = <<>> THEN lastLog
                        ELSE "Supabase connection error:"
          /\ probePending' = (caughtBy(outcome) # <<>>)
          /\ probes' = IF caughtBy(outcome) # <<>> THEN probes + 1 ELSE probes
    /\ UNCHANGED <<thrown, appVars, consoleVars, composerVars, portalVars>>

\* the rest of testConnection once getUser() has settled with an outcome
afterGetUser(outcome) ==
    /\ isConnected' = testConnection(outcome).isConnected
    /\ error' = testConnection(outcome).error
    /\ lastLog' = IF caughtBy(outcome) = <<>> THEN lastLog
                  ELSE "Supabase connection error:"
    /\ probePending' = FALSE
    /\ UNCHANGED <<probes, thrown, appVars, consoleVars, composerVars,
                   portalVars>>

\* the continuation of testConnection after `await supabase.auth.getUser()`
ProbeSettle ==
    /\ probePending
    /\ \E outcome \in GetUserOutcomes : afterGetUser(outcome)

\* the same continuation with the mock client of lib/supabase.ts
MockProbeSettle ==
    /\ probePending
    /\ \E outcome \in MockGetUserOutcomes : afterGetUser(outcome)

(***************************************************************************)
(* OwnerPortal.tsx: the emergency contacts form.  App.tsx does not mount   *)
(* this component; the variables describe one mounted instance of it.      *)
(***************************************************************************)
\* useState initial value of emergencyContacts
EmergencyContactsInitial == [mobile |-> "", satPhone |-> "", radio |-> ""]

ContactFields == {"mobile", "satPhone", "radio"}
ContactInputs == {"", "555-0100"}

\* JSON.stringify of an EmergencyContacts object: the members in the order
\* of the object's keys, as the sequence of <<key, value>> pairs of the text
JSONstringify(contacts) ==
    << <<"mobile", contacts.mobile>>, <<"satPhone", contacts.satPhone>>,
       <<"radio", contacts.radio>> >>

\* JSON.parse of such a text: every key with the value of its last member
JSONparse(text) ==
    [k \in {text[i][1] : i \in DOMAIN text} |->
        text[CHOOSE i \in DOMAIN text :
                /\ text[i][1] = k
                /\ \A j \in DOMAIN text : text[j][1] = k => j <= i][2]]

\* localStorage.setItem(key, text)
setItem(storage, key, text) ==
    [k \in DOMAIN storage \cup {key} |->
        IF k = key THEN text ELSE storage[k]]

\* the handler storing the contacts as rendered, without the changed field
handleEmergencyContactChange_StoresStale(field, value) ==
    /\ emergencyContacts' = [emergencyContacts EXCEPT ![field] = value]
    /\ localStorage' =
          setItem(localStorage, "emergencyContacts",
                  JSONstringify(emergencyContacts))
    /\ thrown' = FALSE
    /\ UNCHANGED <<appVars, consoleVars, composerVars, hookVars, tripVars,
                   lastLog>>

\* setEmergencyContacts(prev => ({ ...prev, [field]: value })) followed by
\* localStorage.setItem('emergencyContacts', JSON.stringify({ ... }))
handleEmergencyContactChange(field, value) ==
    /\ emergencyContacts' = [emergencyContacts EXCEPT ![field] = value]
    /\ localStorage' =
          setItem(localStorage, "emergencyContacts",
                  JSONstringify([emergencyContacts EXCEPT ![field] = value]))
    /\ thrown' = FALSE
    /\ UNCHANGED <<appVars, consoleVars, composerVars, hookVars, tripVars,
                   lastLog>>

\* the three inputs of the Emergency Contacts section: onChange
EmergencyContactInput ==
    \E field \in ContactFields, value \in ContactInputs :
       handleEmergencyContactChange(field, value)

\* the "Save Trip Details" button: console.log('Save trip data:', ...)
handleSaveTrip ==
    /\ lastLog' = "Save trip data:"
    /\ thrown' = FALSE
    /\ UNCHANGED <<appVars, consoleVars, composerVars, hookVars, portalVars>>

\* a datetime-local value 'YYYY-MM-DDTHH:MM' is the number of hours of that
\* wall-clock time after 2024-01-15T00:00, as <<h>>; the empty value is <<>>
DayHours == 24

\* useState initial value of tripData: start '2024-01-15T08:00',
\* end '2024-01-20T18:00', desiredDropBy '2024-01-19T18:00'
TripDataInitial ==
    [startDateTime |-> <<8>>, endDateTime |-> <<138>>,
     pickupLocation |-> "Downtown Terminal",
     dropoffLocation |-> "Mountain Resort", desiredDropBy |-> <<114>>]

\* the values entered in the datetime-local and text inputs of the trip
\* summary, and the offsets of the host's time zone
DateTimeInputs == {<<>>, <<8>>, <<114>>, <<138>>, <<162>>}
TripLocationInputs == {"", "Airport"}
TimeZones == {-5, 0, 2}

\* new Date(value).getTime() in hours: a date-time without offset is local
\* time, so the instant is `timeZone` hours earlier in UTC; NaN (<<>>) for ''
getTime(value, zone) == IF value = <<>> THEN <<>> ELSE <<value[1] - zone>>

\* new Date(t).toISOString().slice(0, 16): the UTC wall-clock text of the
\* instant, which counts the same hours as the instant does; toISOString
\* throws a RangeError for an invalid date
toISOStringThrows(t) == t = <<>>
toISOString(t) == t

\* the updater of handleTripDataChange
updateTripData(prev, field, value, zone) ==
    IF field = "endDateTime"
    THEN [prev EXCEPT !.endDateTime = value,
                      !.desiredDropBy =
                         toISOString(<<getTime(value, zone)[1] - DayHours>>)]
    ELSE [prev EXCEPT ![field] = value]

updateTripDataThrows(field, value, zone) ==
    field = "endDateTime" /\ toISOStringThrows(getTime(value, zone))

\* the trip summary is rendered: an exception thrown by a state updater
\* unmounts the component tree
PortalShown == ~thrown

handleTripDataChange(field, value) ==
    /\ tripData' = IF updateTripDataThrows(field, value, timeZone)
                   THEN tripData
                   ELSE updateTripData(tripData, field, value, timeZone)
    /\ thrown' = updateTripDataThrows(field, value, timeZone)
    /\ UNCHANGED <<timeZone, emergencyContacts, localStorage, appVars,
                   consoleVars, composerVars, hookVars, lastLog>>

\* the Trip Start input: onChange
TripStartInput ==
    /\ PortalShown
    /\ \E value \in DateTimeInputs :
          handleTripDataChange("startDateTime", value)

\* the Trip End input: onChange
TripEndInput ==
    /\ PortalShown
    /\ \E value \in DateTimeInputs :
          handleTripDataChange("endDateTime", value)

\* the Car Pickup Location and Car Dropoff Location inputs: onChange
TripLocationInput ==
    /\ PortalShown
    /\ \E field \in {"pickupLocation", "dropoffLocation"},
          value \in TripLocationInputs :
          handleTripDataChange(field, value)

\* the Desired Drop-by input: onChange; its max attribute bounds what the
\* picker offers, not what the handler receives
DesiredDropByInput ==
    /\ PortalShown
    /\ \E value \in DateTimeInputs :
          handleTripDataChange("desiredDropBy", value)

\* the host moves to another time zone
TimeZoneChange ==
    /\ \E zone \in TimeZones : timeZone' = zone
    /\ UNCHANGED <<tripData, emergencyContacts, localStorage, thrown, appVars,
                   consoleVars, composerVars, hookVars, lastLog>>

\* a mount that starts from the contacts found in localStorage
PortalRemount_ReadsStorage ==
    /\ emergencyContacts' =
          (IF "emergencyContacts" \in DOMAIN localStorage
           THEN JSONparse(localStorage["emergencyContacts"])
           ELSE EmergencyContactsInitial)
    /\ tripData' = TripDataInitial
    /\ thrown' = FALSE
    /\ UNCHANGED <<localStorage, timeZone, appVars, consoleVars,
                   composerVars, hookVars, lastLog>>

\* OwnerPortal is unmounted and mounted again: its state starts afresh, the
\* browser's localStorage stays
PortalRemount ==
    /\ emergencyContacts' = EmergencyContactsInitial
    /\ tripData' = TripDataInitial
    /\ thrown' = FALSE
    /\ UNCHANGED <<localStorage, timeZone, appVars, consoleVars,
                   composerVars, hookVars, lastLog>>

(***************************************************************************)
(* App: App.tsx                                                            *)
(***************************************************************************)
\* useState initial values of OwnerDashboard
ConsoleInitial ==
    [requests |-> <<>>, selectedRequest |-> null, loading |-> TRUE,
     filter |-> "all"]

\* useState initial values of ShuttleRequest
ComposerInitial ==
    [vehicleCount |-> 1, vehicles |-> <<newVehicle(1)>>,
     parkingLocation |-> newGeoPoint, dropoffLocation |-> newGeoPoint,
     dropoffDay |-> "", arrivalTime |-> ""]

Init ==
    /\ currentView = "customer"
    /\ requests = ConsoleInitial.requests
    /\ selectedRequest = ConsoleInitial.selectedRequest
    /\ loading = ConsoleInitial.loading
    /\ filter = ConsoleInitial.filter
    /\ timerPending = FALSE
    /\ vehicleCount = ComposerInitial.vehicleCount
    /\ vehicles = ComposerInitial.vehicles
    /\ parkingLocation = ComposerInitial.parkingLocation
    /\ dropoffLocation = ComposerInitial.dropoffLocation
    /\ dropoffDay = ComposerInitial.dropoffDay
    /\ arrivalTime = ComposerInitial.arrivalTime
    /\ isConnected = HookInitial.isConnected
    /\ error = HookInitial.error
    /\ probePending = TRUE
    /\ probes = 1
    /\ emergencyContacts = EmergencyContactsInitial
    /\ localStorage = <<>>
    /\ tripData = TripDataInitial
    /\ timeZone = 0
    /\ lastLog = ""
    /\ thrown = FALSE

\* a mount that keeps the Console's filter and the Composer's vehicle list
\* of the previous mount
Remount_KeepsState ==
    /\ requests' = ConsoleInitial.requests
    /\ selectedRequest' = ConsoleInitial.selectedRequest
    /\ loading' = ConsoleInitial.loading
    /\ vehicleCount' = ComposerInitial.vehicleCount
    /\ parkingLocation' = ComposerInitial.parkingLocation
    /\ dropoffLocation' = ComposerInitial.dropoffLocation
    /\ dropoffDay' = ComposerInitial.dropoffDay
    /\ arrivalTime' = ComposerInitial.arrivalTime
    /\ isConnected' = HookInitial.isConnected
    /\ error' = HookInitial.error
    /\ probePending' = TRUE
    /\ probes' = 1
    /\ thrown' = FALSE
    /\ UNCHANGED <<portalVars, lastLog, filter, vehicles>>

\* the state of both views after either of them is mounted afresh; the
\* mount effect of the view's useSupabase instance calls testConnection once
Remount ==
    /\ requests' = ConsoleInitial.requests
    /\ selectedRequest' = ConsoleInitial.selectedRequest
    /\ loading' = ConsoleInitial.loading
    /\ filter' = ConsoleInitial.filter
    /\ vehicleCount' = ComposerInitial.vehicleCount
    /\ vehicles' = ComposerInitial.vehicles
    /\ parkingLocation' = ComposerInitial.parkingLocation
    /\ dropoffLocation' = ComposerInitial.dropoffLocation
    /\ dropoffDay' = ComposerInitial.dropoffDay
    /\ arrivalTime' = ComposerInitial.arrivalTime
    /\ isConnected' = HookInitial.isConnected
    /\ error' = HookInitial.error
    /\ probePending' = TRUE
    /\ probes' = 1
    /\ thrown' = FALSE
    /\ UNCHANGED <<portalVars, lastLog>>

\* the "Owner Dashboard" button: ShuttleRequest unmounts, OwnerDashboard
\* mounts and its effect starts the timer
ShowOwner ==
    /\ currentView = "customer"
    /\ currentView' = "owner"
    /\ timerPending' = TRUE
    /\ Remount

\* onBack, the "Customer View" button of the loaded dashboard (the loading
\* screen has no button): OwnerDashboard unmounts, ShuttleRequest mounts
OnBack ==
    /\ ConsoleShown
    /\ currentView' = "customer"
    /\ timerPending' = FALSE
    /\ Remount

(***************************************************************************)
(* The application as the user drives it.                                  *)
(***************************************************************************)
Next ==
    \/ ShowOwner
    \/ OnBack
    \/ MockLoadTimer
    \/ SelectRequest
    \/ CloseDetail
    \/ SetFilter
    \/ AcceptClick
    \/ CompleteClick
    \/ VehicleCountInput
    \/ TransmissionClick
    \/ MakeChange
    \/ ModelChange
    \/ YearChange

Spec == Init /\ [][Next]_vars

(***************************************************************************)
(* The Console's handlers called with any identifier of the collection,    *)
(* whatever the status of the request (no button guard).                   *)
(***************************************************************************)
RequestIds == {requests[i].id : i \in DOMAIN requests}

CallAccept ==
    /\ ConsoleShown
    /\ \E requestId \in RequestIds : handleAcceptRequest(requestId)

CallComplete ==
    /\ ConsoleShown
    /\ \E requestId \in RequestIds : handleCompleteRequest(requestId)

NextHandlers ==
    \/ ShowOwner
    \/ OnBack
    \/ MockLoadTimer
    \/ SelectRequest
    \/ CloseDetail
    \/ SetFilter
    \/ CallAccept
    \/ CallComplete

SpecHandlers == Init /\ [][NextHandlers]_vars

(***************************************************************************)
(* The Console alone, with the scheduling of its timer: a timeout that was *)
(* set is run by the browser's event loop.                                 *)
(***************************************************************************)
NextLoad ==
    \/ ShowOwner
    \/ OnBack
    \/ MockLoadTimer
    \/ SelectRequest
    \/ CloseDetail
    \/ SetFilter
    \/ AcceptClick
    \/ CompleteClick
    \/ ProbeSettle

SpecLoad == Init /\ [][NextLoad]_vars /\ WF_vars(MockLoadTimer)

(***************************************************************************)
(* The Composer's trip form: locations, date, time, vehicle count and the  *)
(* two buttons.                                                            *)
(***************************************************************************)
NextForm ==
    \/ ShowOwner
    \/ OnBack
    \/ MockLoadTimer
    \/ VehicleCountInput
    \/ ParkingNameInput
    \/ ParkingMapPick
    \/ DropoffNameInput
    \/ DropoffMapPick
    \/ DropoffDayInput
    \/ ArrivalTimeInput
    \/ SubmitClick
    \/ SaveDraftClick

SpecForm == Init /\ [][NextForm]_vars

(***************************************************************************)
(* Both views together with the connectivity probe of the mounted view.    *)
(***************************************************************************)
NextProbe ==
    \/ ShowOwner
    \/ OnBack
    \/ ProbeSettle
    \/ MockLoadTimer
    \/ SelectRequest
    \/ CloseDetail
    \/ SetFilter
    \/ AcceptClick
    \/ CompleteClick
    \/ VehicleCountInput
    \/ ParkingNameInput
    \/ SubmitClick

SpecProbe == Init /\ [][NextProbe]_vars

(***************************************************************************)
(* The emergency contacts form next to the operations of the application   *)
(* that write nothing to the browser's storage.                            *)
(***************************************************************************)
NextPortal ==
    \/ EmergencyContactInput
    \/ handleSaveTrip
    \/ PortalRemount
    \/ ShowOwner
    \/ OnBack
    \/ MockLoadTimer
    \/ SelectRequest
    \/ AcceptClick
    \/ ParkingNameInput
    \/ SubmitClick
    \/ SaveDraftClick

SpecPortal == Init /\ [][NextPortal]_vars

(***************************************************************************)
(* Both views with the mock client of lib/supabase.ts; the promise it      *)
(* returns is resolved, so the continuation of the probe is run.           *)
(***************************************************************************)
NextMock ==
    \/ ShowOwner
    \/ OnBack
    \/ MockProbeSettle
    \/ MockLoadTimer
    \/ SelectRequest
    \/ CloseDetail
    \/ SetFilter
    \/ AcceptClick
    \/ CompleteClick
    \/ VehicleCountInput
    \/ SubmitClick

SpecMock == Init /\ [][NextMock]_vars /\ WF_vars(MockProbeSettle)

(***************************************************************************)
(* The trip summary form of OwnerPortal.                                   *)
(***************************************************************************)
NextTrip ==
    \/ TripStartInput
    \/ TripEndInput
    \/ TripLocationInput
    \/ DesiredDropByInput
    \/ TimeZoneChange
    \/ PortalRemount

SpecTrip == Init /\ [][NextTrip]_vars

GeoPoints ==
    [name : LocationNameInputs, lat : {<<>>} \cup {<<p[1]>> : p \in LatLngInputs},
     lng : {<<>>} \cup {<<p[2]>> : p \in LatLngInputs}]

TypeOK ==
    /\ currentView \in {"customer", "owner"}
    /\ loading \in BOOLEAN
    /\ timerPending \in BOOLEAN
    /\ filter \in FilterKeys
    /\ thrown \in BOOLEAN
    /\ vehicleCount \in Int
    /\ Len(selectedRequest) <= 1
    /\ parkingLocation \in GeoPoints
    /\ dropoffLocation \in GeoPoints
    /\ dropoffDay \in DayInputs
    /\ arrivalTime \in TimeInputs
    /\ isConnected \in {null, <<TRUE>>, <<FALSE>>}
    /\ Len(error) <= 1
    /\ probePending \in BOOLEAN
    /\ probes \in Nat
    /\ emergencyContacts \in [ContactFields -> ContactInputs]
    /\ DOMAIN localStorage \subseteq {"emergencyContacts"}
    /\ timeZone \in TimeZones
    /\ tripData.startDateTime \in DateTimeInputs
    /\ Len(tripData.endDateTime) <= 1
    /\ Len(tripData.desiredDropBy) <= 1

(***************************************************************************)
(* Properties.                                                             *)
(***************************************************************************)
RequestStatus(reqs, requestId) ==
    (CHOOSE r \in {reqs[i] : i \in DOMAIN reqs} : r.id = requestId).status

\* C1: handleAcceptRequest called with the id of a request that is not
\* pending changes nothing in the collection and raises no error; called on
\* a pending request it sets the status to active.
C1_AcceptIsNoOpUnlessPending ==
    [][\A requestId \in RequestIds :
          handleAcceptRequest(requestId) =>
             /\ ~thrown'
             /\ RequestStatus(requests, requestId) # "pending"
                   => requests' = requests
             /\ RequestStatus(requests, requestId) = "pending"
                   => RequestStatus(requests', requestId) = "active"]_vars

\* C2: handleCompleteRequest called with the id of a request that is not
\* active changes nothing in the collection and raises no error; called on
\* an active request it sets the status to completed.
C2_CompleteIsNoOpUnlessActive ==
    [][\A requestId \in RequestIds :
          handleCompleteRequest(requestId) =>
             /\ ~thrown'
             /\ RequestStatus(requests, requestId) # "active"
                   => requests' = requests
             /\ RequestStatus(requests, requestId) = "active"
                   => RequestStatus(requests', requestId) = "completed"]_vars

\* C3: within one mounted Console, over the actions the UI offers, every
\* change of a request's status is pending -> active or active -> completed.
C3_StatusForwardOnly ==
    [][(currentView = "owner" /\ currentView' = "owner") =>
          \A i \in DOMAIN requests, j \in DOMAIN requests' :
             (requests[i].id = requests'[j].id
                /\ requests[i].status # requests'[j].status)
             => <<requests[i].status, requests'[j].status>>
                   \in {<<"pending", "active">>, <<"active", "completed">>}]_vars

\* a request was accepted and then completed through the buttons
C3_Witness ==
    /\ ConsoleShown
    /\ \A i \in DOMAIN requests : requests[i].status = "completed"
    /\ Len(requests) = 3

Clamp(n, lo, hi) == IF n < lo THEN lo ELSE IF n > hi THEN hi ELSE n

\* C4: for every integer n given to handleVehicleCountChange, the resulting
\* vehicle list has length clamp(n, 1, 10) and no error is raised.
C4_CountClamped ==
    [][\A n \in CountInputs :
          handleVehicleCountChange(n) =>
             /\ Len(vehicles') = Clamp(n, 1, 10)
             /\ ~thrown']_vars

\* the count was raised to the upper clamp and a field was edited before
C4_Witness ==
    /\ ComposerShown
    /\ Len(vehicles) = 10
    /\ vehicles[2].year = "2025"

VehicleFields == {"id", "transmission", "make", "model", "year"}

\* new is old with exactly the given field of the vehicle at position i
\* replaced by value
OnlyFieldReplaced(old, new, i, field, value) ==
    /\ Len(new) = Len(old)
    /\ \A j \in DOMAIN old :
          IF j = i
          THEN /\ new[j][field] = value
               /\ \A g \in VehicleFields \ {field} : new[j][g] = old[j][g]
          ELSE new[j] = old[j]

\* the values the form passes to setVehicleField for a field
FieldInputs(field) ==
    CASE field = "make" -> MakeInputs
      [] field = "model" -> ModelInputs \cup {firstModel(m) : m \in MakeInputs}
      [] field = "year" -> YearInputs

\* C6: from every reachable vehicle list, setVehicleField and
\* setVehicleTransmission addressed to the vehicle at position i replace
\* only the named field of that vehicle; the other vehicles, the other
\* fields, the length and the order are unchanged.
C6_UpdateTouchesOneField ==
    \A i \in DOMAIN vehicles :
       /\ \A field \in {"make", "model", "year"} :
             \A value \in FieldInputs(field) :
                OnlyFieldReplaced(vehicles,
                    setVehicleField(vehicles, vehicles[i].id, field, value),
                    i, field, value)
       /\ \A t \in TransmissionInputs :
             OnlyFieldReplaced(vehicles,
                 setVehicleTransmission(vehicles, vehicles[i].id, t),
                 i, "transmission", t)

\* vehicle 2 was edited (transmission, make, year) next to an untouched
\* vehicle 1 and an untouched vehicle 3
C6_Witness ==
    /\ ComposerShown
    /\ Len(vehicles) >= 3
    /\ vehicles[1] = newVehicle(1)
    /\ vehicles[2] = [id |-> 2, transmission |-> "manual", make |-> "Toyota",
                      model |-> "Tacoma", year |-> "2025"]
    /\ vehicles[3] = newVehicle(3)

\* the positions of the requests with status s
MatchingIndices(s) == {i \in DOMAIN requests : requests[i].status = s}

\* the k-th smallest element of a set of positions
KthIndex(S, k) == CHOOSE i \in S : Cardinality({j \in S : j < i}) = k - 1

\* C7: for every status s, the list filtered by s holds exactly the requests
\* with status s, each once, in the order of the collection.
C7_FilterExactSubsetInOrder ==
    \A s \in Statuses :
       LET shown == filterRequests(requests, s)
       IN /\ Len(shown) = Cardinality(MatchingIndices(s))
          /\ \A k \in 1..Len(shown) :
                shown[k] = requests[KthIndex(MatchingIndices(s), k)]

\* the active tab shows two requests, the first of them accepted in this
\* mount
C7_Witness ==
    /\ ConsoleShown
    /\ filter = "active"
    /\ Len(filteredRequests) = 2
    /\ filteredRequests[1].id = "1"
    /\ filteredRequests[2].id = "2"

\* C8: with the filter "all" the filtered list is the request collection:
\* same elements, same order, same length.
C8_FilterAllIsIdentity ==
    filter = "all" => filteredRequests = requests

\* the "all" tab after the load and an accept
C8_Witness ==
    /\ ConsoleShown
    /\ filter = "all"
    /\ Len(filteredRequests) = 3
    /\ filteredRequests[1].status = "active"

\* C9: a change of the filter within a mount leaves the request collection
\* and the selection unchanged.
C9_FilterChangeKeepsData ==
    [][(currentView = "owner" /\ currentView' = "owner" /\ filter' # filter)
          => (requests' = requests /\ selectedRequest' = selectedRequest)]_vars

\* the filter was changed while a request stayed selected
C9_Witness ==
    /\ ConsoleShown
    /\ filter = "completed"
    /\ selectedRequest # null
    /\ selectedRequest[1].status = "pending"

\* C10: every displayed count (stats cards and filter tabs) equals the number
\* of requests of the collection with that status, the "all" tab the length
\* of the collection.
C10_CountsAreLive ==
    /\ \A s \in Statuses :
          /\ StatsCount(s) = Cardinality(MatchingIndices(s))
          /\ TabCount(s) = Cardinality(MatchingIndices(s))
    /\ TabCount("all") = Cardinality(DOMAIN requests)

\* right after an accept: no pending request, two active ones, while the
\* pending tab is the one shown
C10_Witness ==
    /\ ConsoleShown
    /\ filter = "pending"
    /\ StatsCount("pending") = 0
    /\ StatsCount("active") = 2
    /\ TabCount("completed") = 1

\* C11: a row click and the close button of the detail view change the
\* selection only: the collection, the active filter, the loading flag and
\* the other view's state stay as they are.
C11_SelectionOnly ==
    [][(SelectRequest \/ CloseDetail) =>
          /\ requests' = requests
          /\ filter' = filter
          /\ loading' = loading
          /\ UNCHANGED <<currentView, composerVars>>]_vars

\* a request accepted earlier is selected again under the "active" tab
C11_Witness ==
    /\ ConsoleShown
    /\ filter = "active"
    /\ requests[1].status = "active"
    /\ selectedRequest # null
    /\ selectedRequest[1].id = requests[1].id

\* C12: when the vehicle count grows from m to n (m < n <= 10) the first m
\* vehicles keep all their fields and the positions m+1..n hold vehicles with
\* ids m+1..n, automatic transmission and blank make, model and year; from
\* the initial state a count of 3 gives the ids 1, 2, 3.
C12_GrowthAppendsDefaults ==
    [][(ComposerShown /\ currentView' = currentView
           /\ Len(vehicles') > Len(vehicles)) =>
          /\ Len(vehicles') <= MaxVehicles
          /\ Len(vehicles') = vehicleCount'
          /\ SubSeq(vehicles', 1, Len(vehicles)) = vehicles
          /\ \A i \in (Len(vehicles) + 1) .. Len(vehicles') :
                vehicles'[i] = [id |-> i, transmission |-> "automatic",
                                make |-> "", model |-> "", year |-> ""]
          /\ (vehicles = ComposerInitial.vehicles /\ vehicleCount' = 3)
                => [i \in 1..3 |-> vehicles'[i].id] = <<1, 2, 3>>]_vars

\* the count was raised to 10 after the first two vehicles had been edited
C12_Witness ==
    /\ ComposerShown
    /\ Len(vehicles) = MaxVehicles
    /\ vehicles[1].make = "Toyota"
    /\ vehicles[2].transmission = "manual"
    /\ vehicles[MaxVehicles] = newVehicle(MaxVehicles)

\* C13: when the vehicle count shrinks from m to n (1 <= n < m) the list
\* becomes exactly its first n vehicles, unchanged.
C13_ShrinkKeepsPrefix ==
    [][(ComposerShown /\ currentView' = currentView
           /\ Len(vehicles') < Len(vehicles)) =>
          /\ Len(vehicles') >= MinVehicles
          /\ Len(vehicles') = vehicleCount'
          /\ vehicles' = SubSeq(vehicles, 1, Len(vehicles'))]_vars

\* two vehicles, both edited: what a shrink from a longer list leaves
C13_Witness ==
    /\ ComposerShown
    /\ vehicleCount = 2
    /\ Len(vehicles) = 2
    /\ vehicles[1].year = "2025"
    /\ vehicles[2].make = "Ford"
    /\ vehicles[2].transmission = "manual"

\* C14: the Request Shuttle button is enabled in every state of the Composer,
\* whatever is empty in the form, and a click on it changes neither the
\* Composer's state nor the Console's collection and raises no error.
C14_SubmitAlwaysAcceptedNoEffect ==
    /\ [](ComposerShown => ENABLED SubmitClick)
    /\ [][SubmitClick =>
             /\ UNCHANGED <<composerVars, consoleVars, currentView>>
             /\ ~thrown']_vars

\* a submission was logged and the form is still entirely empty
C14_Witness ==
    /\ ComposerShown
    /\ lastLog = "Submit shuttle request"
    /\ parkingLocation.name = "" /\ dropoffLocation.name = ""
    /\ dropoffDay = "" /\ arrivalTime = ""
    /\ vehicleCount = 1
    /\ vehicles[1].make = "" /\ vehicles[1].model = "" /\ vehicles[1].year = ""
    /\ requests = <<>>

\* C19: a step that changes the parking location leaves the drop-off
\* location, the vehicles, the count, the date and the time unchanged, and
\* the other way round; a step that changes a location's name keeps its
\* coordinates and a step that changes its coordinates keeps its name.
C19_LocationsIndependent ==
    [][(ComposerShown /\ currentView' = currentView) =>
          /\ parkingLocation' # parkingLocation =>
                /\ UNCHANGED <<dropoffLocation, vehicles, vehicleCount,
                               dropoffDay, arrivalTime>>
                /\ parkingLocation'.name # parkingLocation.name =>
                      /\ parkingLocation'.lat = parkingLocation.lat
                      /\ parkingLocation'.lng = parkingLocation.lng
                /\ (\/ parkingLocation'.lat # parkingLocation.lat
                    \/ parkingLocation'.lng # parkingLocation.lng) =>
                      parkingLocation'.name = parkingLocation.name
          /\ dropoffLocation' # dropoffLocation =>
                /\ UNCHANGED <<parkingLocation, vehicles, vehicleCount,
                               dropoffDay, arrivalTime>>
                /\ dropoffLocation'.name # dropoffLocation.name =>
                      /\ dropoffLocation'.lat = dropoffLocation.lat
                      /\ dropoffLocation'.lng = dropoffLocation.lng
                /\ (\/ dropoffLocation'.lat # dropoffLocation.lat
                    \/ dropoffLocation'.lng # dropoffLocation.lng) =>
                      dropoffLocation'.name = dropoffLocation.name]_vars

\* the parking location has a name and coordinates, the drop-off location a
\* name only, and the rest of the form holds values
C19_Witness ==
    /\ ComposerShown
    /\ parkingLocation = [name |-> "Boat ramp", lat |-> <<39>>, lng |-> <<-98>>]
    /\ dropoffLocation = [name |-> "Boat ramp", lat |-> <<>>, lng |-> <<>>]
    /\ vehicleCount = 3
    /\ dropoffDay = "2024-01-15"
    /\ arrivalTime = "08:00"

\* C15: the connectivity state is connecting (null), connected (true) or
\* failed (false); every mount starts connecting and issues exactly one
\* probe; within a mount the state changes at most once, from connecting,
\* and never returns to connecting; there is no retry.
C15_ProbeOncePerMount ==
    /\ isConnected = null
    /\ [](/\ isConnected \in {null, <<TRUE>>, <<FALSE>>}
          /\ probes = 1
          /\ probePending <=> isConnected = null)
    /\ [][/\ currentView' # currentView =>
                (isConnected' = null /\ probes' = 1 /\ probePending')
          /\ currentView' = currentView =>
                /\ probes' = probes
                /\ isConnected # null => isConnected' = isConnected
                /\ ~probePending => ~probePending']_vars

\* the probe of a Console mount has failed with a value that is no Error
C15_Witness ==
    /\ ConsoleShown
    /\ isConnected = <<FALSE>>
    /\ error = <<"Connection failed">>
    /\ ~probePending
    /\ probes = 1

\* C16: connectivity never gates the forms.  Whatever the connectivity
\* state, every operation of the mounted Composer is enabled, and every
\* operation of the loaded Console is enabled exactly when the Console's own
\* state allows it; the operations have the effect their handlers compute
\* from the view's state and leave the connectivity state alone, and the
\* probe's outcome leaves the views' state alone.
C16_ConnectivityNeverGates ==
    /\ [](/\ currentView = "customer" =>
                /\ ENABLED VehicleCountInput
                /\ ENABLED TransmissionClick
                /\ ENABLED MakeChange
                /\ ENABLED YearChange
                /\ ENABLED ParkingNameInput
                /\ ENABLED ParkingMapPick
                /\ ENABLED DropoffNameInput
                /\ ENABLED DropoffMapPick
                /\ ENABLED DropoffDayInput
                /\ ENABLED ArrivalTimeInput
                /\ ENABLED SubmitClick
                /\ ENABLED SaveDraftClick
          /\ (currentView = "owner" /\ ~loading) =>
                /\ ENABLED SetFilter
                /\ ENABLED SelectRequest <=> Len(filteredRequests) > 0
                /\ ENABLED CloseDetail <=> selectedRequest # null
                /\ ENABLED AcceptClick <=>
                      (selectedRequest # null
                         /\ selectedRequest[1].status = "pending")
                /\ ENABLED CompleteClick <=>
                      (selectedRequest # null
                         /\ selectedRequest[1].status = "active"))
    /\ [][/\ (isConnected' # isConnected /\ currentView' = currentView)
                => UNCHANGED <<consoleVars, composerVars>>
          /\ (VehicleCountInput \/ ParkingNameInput \/ SubmitClick
                 \/ SelectRequest \/ CloseDetail \/ SetFilter
                 \/ AcceptClick \/ CompleteClick)
                => UNCHANGED hookVars
          /\ AcceptClick =>
                requests' = mapStatus(requests, selectedRequest[1].id, "active")
          /\ CompleteClick =>
                requests' =
                   mapStatus(requests, selectedRequest[1].id, "completed")
          /\ VehicleCountInput =>
                \E count \in CountInputs :
                   vehicles' = resizeVehicles(vehicles, safeCount(count))]_vars

\* after a failed probe the Composer was edited and submitted
C16_Witness ==
    /\ currentView = "customer"
    /\ isConnected = <<FALSE>>
    /\ vehicleCount = 3
    /\ parkingLocation.name = "Boat ramp"
    /\ lastLog = "Submit shuttle request"

\* C17: every change of an emergency contact (mobile, satPhone, radio)
\* writes to local storage, and after it the record stored under
\* 'emergencyContacts' maps every field to the value held in memory; within
\* a mount the contacts change in no other way, and no other operation
\* writes to local storage.
C17_ContactsWrittenThrough ==
    [][/\ (\E field \in ContactFields, value \in ContactInputs :
              handleEmergencyContactChange(field, value)) =>
             /\ "emergencyContacts" \in DOMAIN localStorage'
             /\ JSONparse(localStorage'["emergencyContacts"])
                   = emergencyContacts'
       /\ emergencyContacts' # emergencyContacts =>
             (EmergencyContactInput \/ PortalRemount)
       /\ localStorage' # localStorage => EmergencyContactInput]_vars

\* two contacts were entered one after the other and the stored record
\* holds both
C17_Witness ==
    /\ emergencyContacts =
          [mobile |-> "555-0100", satPhone |-> "", radio |-> "555-0100"]
    /\ "emergencyContacts" \in DOMAIN localStorage
    /\ JSONparse(localStorage["emergencyContacts"]) = emergencyContacts
    /\ lastLog = "Save trip data:"

\* C18: once the Console is loaded, within the mount, the requests keep
\* their number, their order and their ids; accept and complete change the
\* status of the targeted request only, every other field of every request
\* (vehicleCount and vehicles included) stays as it is; nothing adds or
\* removes a request.
C18_CollectionShapeFixed ==
    [][(currentView = "owner" /\ ~loading /\ currentView' = currentView) =>
          /\ Len(requests') = Len(requests)
          /\ \A i \in DOMAIN requests :
                requests'[i] =
                   [requests[i] EXCEPT !.status = requests'[i].status]
          /\ Cardinality({i \in DOMAIN requests :
                             requests'[i] # requests[i]}) <= 1
          /\ \A requestId \in RequestIds :
                (handleAcceptRequest(requestId)
                   \/ handleCompleteRequest(requestId)) =>
                   \A i \in DOMAIN requests :
                      requests[i].id # requestId => requests'[i] = requests[i]
       ]_vars

\* every request has had its status changed by the handlers; ids, order and
\* vehicles are those of the mock data
C18_Witness ==
    /\ ConsoleShown
    /\ requests[1].status = "completed"
    /\ requests[2].status = "completed"
    /\ requests[3].status = "active"
    /\ [i \in 1..3 |-> requests[i].id] = <<"1", "2", "3">>
    /\ \A i \in 1..3 : requests[i].vehicles = mockRequests[i].vehicles

\* C20: while the Console is loading, no select, close, filter, accept or
\* complete action is available and the collection is empty; the timer
\* callback fires while loading, once per mount, sets the collection to the
\* three mock requests (pending, active, completed) and ends loading;
\* loading is never true again in that mount; the timer being scheduled,
\* loading eventually ends.
C20_LoadingGate ==
    /\ []((currentView = "owner" /\ loading) =>
            /\ ~ENABLED SelectRequest
            /\ ~ENABLED CloseDetail
            /\ ~ENABLED SetFilter
            /\ ~ENABLED AcceptClick
            /\ ~ENABLED CompleteClick
            /\ requests = <<>>
            /\ ENABLED MockLoadTimer)
    /\ []((currentView = "owner" /\ ~loading) => ~ENABLED MockLoadTimer)
    /\ [][/\ MockLoadTimer =>
                /\ loading /\ ~loading'
                /\ requests' = mockRequests
                /\ [i \in DOMAIN requests' |-> requests'[i].status]
                      = <<"pending", "active", "completed">>
          /\ (currentView = "owner" /\ currentView' = "owner" /\ ~loading)
                => ~loading']_vars
    /\ ((currentView = "owner" /\ loading)
          ~> (currentView = "owner" /\ ~loading))

\* the load has ended and the "completed" tab was chosen afterwards
C20_Witness ==
    /\ currentView = "owner"
    /\ ~loading
    /\ ~timerPending
    /\ requests = mockRequests
    /\ filter = "completed"

\* C21: every call of handleAcceptRequest and of handleCompleteRequest clears
\* the selection, which closes the detail view with its two buttons, and
\* leaves the filter unchanged; so a second accept or complete needs a
\* select first.
C21_StatusChangeClearsSelection ==
    [][\A requestId \in RequestIds :
          (handleAcceptRequest(requestId)
             \/ handleCompleteRequest(requestId)) =>
             /\ selectedRequest' = null
             /\ filter' = filter
             /\ ~DetailShown'
             /\ ~AcceptButtonShown'
             /\ ~CompleteButtonShown']_vars

\* under the "pending" tab the first request was accepted and then
\* completed: the detail view is closed and the tab is still the same
C21_Witness ==
    /\ ConsoleShown
    /\ filter = "pending"
    /\ requests[1].status = "completed"
    /\ selectedRequest = null

\* C22: whenever a request is selected in the Console, the selected snapshot
\* equals the request with that id in the collection; so the Accept button
\* is shown only if that request is pending, the Mark as Completed button
\* only if it is active, and never both.
C22_SelectionInSync ==
    (currentView = "owner" /\ selectedRequest # null) =>
       /\ \E i \in DOMAIN requests :
             /\ requests[i].id = selectedRequest[1].id
             /\ requests[i] = selectedRequest[1]
       /\ AcceptButtonShown =>
             RequestStatus(requests, selectedRequest[1].id) = "pending"
       /\ CompleteButtonShown =>
             RequestStatus(requests, selectedRequest[1].id) = "active"
       /\ ~(AcceptButtonShown /\ CompleteButtonShown)

\* the first request, accepted and completed earlier, is selected again
C22_Witness ==
    /\ ConsoleShown
    /\ selectedRequest # null
    /\ selectedRequest[1].id = "1"
    /\ selectedRequest[1].status = "completed"
    /\ ~AcceptButtonShown /\ ~CompleteButtonShown

\* C23: the current view is the customer view or the owner view, the
\* customer view at the start, and only the current view holds state.
\* Every switch of view mounts the views afresh: the Console starts loading
\* with an empty collection, filter "all" and no selection, and its load
\* gives the mock data again whatever was accepted or completed before; the
\* Composer starts with count 1, one default vehicle and empty locations.
C23_ViewsReinitialised ==
    /\ currentView = "customer"
    /\ [](/\ currentView \in {"customer", "owner"}
          /\ currentView = "customer" =>
                /\ requests = <<>> /\ selectedRequest = null
                /\ filter = "all" /\ loading
          /\ currentView = "owner" =>
                /\ vehicleCount = 1 /\ vehicles = <<newVehicle(1)>>
                /\ parkingLocation = newGeoPoint
                /\ dropoffLocation = newGeoPoint
                /\ dropoffDay = "" /\ arrivalTime = "")
    /\ [][/\ currentView' # currentView =>
                /\ requests' = <<>> /\ selectedRequest' = null
                /\ filter' = "all" /\ loading'
                /\ vehicleCount' = 1 /\ vehicles' = <<newVehicle(1)>>
                /\ parkingLocation' = newGeoPoint
                /\ dropoffLocation' = newGeoPoint
          /\ MockLoadTimer =>
                /\ requests' = mockRequests
                /\ filter' = "all" /\ selectedRequest' = null]_vars

\* the Composer logged a submission, then the Console was opened and a
\* request accepted: the Composer's state is the initial one
C23_Witness ==
    /\ currentView = "owner"
    /\ ~loading
    /\ lastLog = "Submit shuttle request"
    /\ requests[1].status = "active"
    /\ vehicleCount = 1
    /\ vehicles = <<newVehicle(1)>>
    /\ parkingLocation = newGeoPoint

\* C24: in every state of the Composer the vehicle ids are 1, 2, ..., length
\* in list order; so a step that edits the vehicles (the list keeps its
\* length) changes at most one of them.
C24_VehicleIdsConsecutive ==
    /\ [](currentView = "customer" =>
            [i \in DOMAIN vehicles |-> vehicles[i].id]
               = [i \in 1..Len(vehicles) |-> i])
    /\ [][(ComposerShown /\ currentView' = currentView
             /\ Len(vehicles') = Len(vehicles)) =>
             Cardinality({i \in DOMAIN vehicles :
                             vehicles'[i] # vehicles[i]}) <= 1]_vars

\* the list was shortened and lengthened around edits of two vehicles
C24_Witness ==
    /\ ComposerShown
    /\ Len(vehicles) = 4
    /\ vehicles[1].make = "Ford"
    /\ vehicles[2].year = "2025"
    /\ vehicles[2].transmission = "manual"
    /\ vehicles[4].id = 4

\* C25: a step that changes a vehicle's make sets its model to the first
\* model listed for the new make, blank for the blank make, and keeps its
\* year and transmission; in every state of the Composer a vehicle's model
\* is blank or listed for its make, and blank when the make is blank.
C25_ModelFollowsMake ==
    /\ [](currentView = "customer" =>
            \A i \in DOMAIN vehicles :
               /\ vehicles[i].model = ""
                  \/ \E k \in DOMAIN modelsOf(vehicles[i].make) :
                        modelsOf(vehicles[i].make)[k] = vehicles[i].model
               /\ vehicles[i].make = "" => vehicles[i].model = "")
    /\ [][(ComposerShown /\ currentView' = currentView) =>
             \A i \in DOMAIN vehicles \cap DOMAIN vehicles' :
                vehicles'[i].make # vehicles[i].make =>
                   /\ vehicles'[i].model =
                         (IF vehicles'[i].make = "" THEN ""
                          ELSE modelsOf(vehicles'[i].make)[1])
                   /\ vehicles'[i].year = vehicles[i].year
                   /\ vehicles'[i].transmission
                         = vehicles[i].transmission]_vars

\* the first vehicle has the first model of its make next to a year and a
\* transmission that were set, the second a model chosen from its make's list
C25_Witness ==
    /\ ComposerShown
    /\ Len(vehicles) >= 2
    /\ vehicles[1] = [id |-> 1, transmission |-> "manual", make |-> "Ford",
                      model |-> modelsOf("Ford")[1], year |-> "2025"]
    /\ vehicles[2].make = "Toyota"
    /\ vehicles[2].model = "Tacoma"

\* C26: the probe ends connected when getUser() returns no error or an error
\* with the message 'Auth session missing!', and failed for every other
\* returned error and for every thrown exception; when connected the error
\* message is null, and a non-null error message occurs only when failed.
C26_ProbeOutcome ==
    /\ [](/\ isConnected = <<TRUE>> => error = null
          /\ error # null => isConnected = <<FALSE>>)
    /\ [][\A outcome \in GetUserOutcomes :
             (probePending /\ afterGetUser(outcome)) =>
                IF /\ outcome.kind = "resolved"
                   /\ \/ outcome.err = <<>>
                      \/ outcome.err[1].message = "Auth session missing!"
                THEN isConnected' = <<TRUE>> /\ error' = null
                ELSE isConnected' = <<FALSE>> /\ error' # null]_vars

\* getUser() threw an exception carrying the message that is tolerated in
\* a returned error: the probe has failed
C26_Witness ==
    /\ isConnected = <<FALSE>>
    /\ error = <<"Auth session missing!">>
    /\ ~probePending

\* C27: with the mock client of the source, whose getUser() always resolves
\* with error null, the failed state is never reached, no error message is
\* ever set, and a connecting view eventually becomes connected.
C27_MockAlwaysConnects ==
    /\ [](isConnected # <<FALSE>> /\ error = null)
    /\ (isConnected = null ~> isConnected = <<TRUE>>)

\* the Console, mounted after the Composer, is connected as well
C27_Witness ==
    /\ ConsoleShown
    /\ isConnected = <<TRUE>>
    /\ error = null
    /\ ~probePending
    /\ lastLog = "Submit shuttle request"
    /\ requests[1].status = "active"

\* C28: stored emergency contacts are never read back.  A mount starts with
\* blank contacts whatever local storage holds and leaves local storage as
\* it is; the first change of a field after that stores a record whose two
\* other fields are blank, whatever was stored for them before.
C28_StoredContactsNotReadBack ==
    /\ [](ENABLED (/\ PortalRemount
                   /\ emergencyContacts' = EmergencyContactsInitial
                   /\ localStorage' = localStorage))
    /\ [][/\ PortalRemount =>
                /\ emergencyContacts' = EmergencyContactsInitial
                /\ localStorage' = localStorage
          /\ \A field \in ContactFields, value \in ContactInputs :
                (/\ emergencyContacts = EmergencyContactsInitial
                 /\ handleEmergencyContactChange(field, value)) =>
                   \A other \in ContactFields \ {field} :
                      JSONparse(localStorage'["emergencyContacts"])[other]
                         = ""]_vars

\* after a remount the contacts in memory are blank while local storage
\* still holds the two numbers entered before
C28_Witness ==
    /\ emergencyContacts = EmergencyContactsInitial
    /\ "emergencyContacts" \in DOMAIN localStorage
    /\ JSONparse(localStorage["emergencyContacts"]) =
          [mobile |-> "555-0100", satPhone |-> "555-0100", radio |-> ""]

\* C29: in every state of the trip summary form the desired drop-by time is
\* at least 24 hours before the trip end time; a change of the end time sets
\* desired drop-by to end minus 24 hours, and a change of another field
\* leaves it as entered.
C29_DropByAtLeast24hBeforeEnd ==
    /\ []((tripData.desiredDropBy # <<>> /\ tripData.endDateTime # <<>>) =>
            tripData.desiredDropBy[1] <= tripData.endDateTime[1] - DayHours)
    /\ [][/\ (tripData'.endDateTime # tripData.endDateTime
               /\ tripData'.endDateTime # <<>>) =>
                tripData'.desiredDropBy
                   = <<tripData'.endDateTime[1] - DayHours>>
          /\ (TripStartInput \/ TripLocationInput) =>
                tripData'.desiredDropBy = tripData.desiredDropBy]_vars

====
